---- MODULE Spec2Model ----
(***************************************************************************)
(* Model of app.py, the Streamlit park-use dashboard.                      *)
(*                                                                         *)
(* Streamlit re-executes the whole script, top to bottom, every time a     *)
(* widget value changes.  The state is therefore: the three cached         *)
(* datasets, the values held by the three sidebar widgets, and what the    *)
(* last execution of the script bound and displayed.  Each action is one   *)
(* widget change followed by the complete script run it triggers.          *)
(***************************************************************************)
EXTENDS Integers, Sequences, FiniteSets, TLC

VARIABLES
    gdf,                 \* load_trip_pings(): the cached point dataset
    parks_gdf,           \* load_parks(): the cached polygon dataset
    park_info,           \* load_park_info(): the cached metadata lookup
    selected_parks,      \* value of the "Select Parks:" multiselect
    selected_date_range, \* value of the "Date Range:" date input
    active_park,         \* value of the "Active Park" selectbox
    status,              \* how the last script run ended
    error,               \* the exception that ended it, if any
    defined,             \* script names the last run bound
    shown,               \* elements the last run displayed
    filtered_gdf, filtered_parks_gdf, focus_gdf, focus_parks_gdf,
    info, park_summary, trip_stats

base == <<gdf, parks_gdf, park_info>>
widgets == <<selected_parks, selected_date_range, active_park>>
run == <<status, error, defined, shown, filtered_gdf, filtered_parks_gdf,
         focus_gdf, focus_parks_gdf, info, park_summary, trip_stats>>
vars == <<base, widgets, run>>

\* ---------------------------------------------------------------- bounds
MaxPings == 2
MaxPolys == 2
NumDays == 2
TicksPerDay == 2
TicksPerMinute == 1

\* ------------------------------------------------------------- universes
\* Park names, in the order sorted() and groupby(sort=True) put them.
ParkOrder == <<"A", "B">>
\* Device identifiers, in the order groupby(sort=True) puts them.
DeviceOrder == <<"d1", "d2">>
GlobalIDs == {"g1", "g2"}

Range(s) == {s[i] : i \in DOMAIN s}
Parks == Range(ParkOrder)
Devices == Range(DeviceOrder)
Timestamps == 0 .. (NumDays * TicksPerDay - 1)

Ping == [ad_id : Devices, park_name : Parks,
         utc_timestamp : Timestamps, visited_park : BOOLEAN]
Polygon == [ParkGroupDescription : Parks, GlobalID : GlobalIDs]
\* A park_info.json record either carries a "VisitStats" entry or not.
InfoKinds == {"plain", "stats"}

SeqsUpTo(S, n) == UNION {[1..k -> S] : k \in 0..n}
Reverse(s) == [i \in 1..Len(s) |-> s[Len(s) + 1 - i]]

\* ------------------------------------------------------- pure operations
\* Series.dt.date / Timestamp.date(): the calendar day of a timestamp.
DateOf(ts) == ts \div TicksPerDay

\* strftime("%Y-%m-%d %H:%M"): day, then the minute within the day; the
\* resulting strings compare lexicographically.
Strftime(ts) == <<ts \div TicksPerDay, (ts % TicksPerDay) \div TicksPerMinute>>
StrLeq(a, b) == a[1] < b[1] \/ (a[1] = b[1] /\ a[2] <= b[2])

SetMin(S) == CHOOSE x \in S : \A y \in S : x <= y
SetMax(S) == CHOOSE x \in S : \A y \in S : y <= x

\* sorted(gdf["park_name"].dropna().unique())
available_parks(g) == {g[i].park_name : i \in DOMAIN g}
min_date(g) == DateOf(SetMin({g[i].utc_timestamp : i \in DOMAIN g}))
max_date(g) == DateOf(SetMax({g[i].utc_timestamp : i \in DOMAIN g}))

\* What st.date_input can return for a range input bounded by min_value and
\* max_value: an empty tuple, one date, or an ordered pair of dates.
DateRangeValues(g) ==
    LET D == min_date(g) .. max_date(g)
    IN  {<<>>} \cup {<<d>> : d \in D}
        \cup {r \in D \X D : r[1] <= r[2]}

\* if selected_date_range and len(selected_date_range) == 2 and all(...)
\* Variant: a single date passes the validation.
ValidDateRangeLoose(r) == Len(r) >= 1
ValidDateRange(r) == r # <<>> /\ Len(r) = 2

\* gdf[gdf["park_name"].isin(selected_parks)]
\* Variant: an empty selection applies no filter.
FilterParksNoneMeansAll(g, sel) ==
    IF sel = {} THEN g ELSE SelectSeq(g, LAMBDA p : p.park_name \in sel)
FilterParks(g, sel) == SelectSeq(g, LAMBDA p : p.park_name \in sel)

\* parks_gdf[parks_gdf["ParkGroupDescription"].isin(selected_parks)].copy()
FilterPolygons(pg, sel) ==
    SelectSeq(pg, LAMBDA r : r.ParkGroupDescription \in sel)

\* selected_visitor_type = "Visitor"
\* Variant: the mode that applies no visit-status filter.
VisitorTypeAll == "All"
selected_visitor_type == "Visitor"

FilterVisitor(g, mode) ==
    IF mode = "Visitor" THEN SelectSeq(g, LAMBDA p : p.visited_park = TRUE)
    ELSE IF mode = "Non-Visitor"
         THEN SelectSeq(g, LAMBDA p : p.visited_park = FALSE)
         ELSE g

\* (dt.date >= start_date) & (dt.date <= end_date)
\* Variant: the end date is excluded.
FilterDateExclusiveEnd(g, s, e) ==
    SelectSeq(g, LAMBDA p : DateOf(p.utc_timestamp) >= s
                            /\ DateOf(p.utc_timestamp) < e)
FilterDate(g, s, e) ==
    SelectSeq(g, LAMBDA p : DateOf(p.utc_timestamp) >= s
                            /\ DateOf(p.utc_timestamp) <= e)

\* Apply Active Park Focus, point side.
\* Variant: the focus indexes the base dataset instead of the filtered set.
FocusPointsFromBase(fg, act) ==
    IF act # "All" THEN SelectSeq(gdf, LAMBDA p : p.park_name = act) ELSE fg
FocusPoints(fg, act) ==
    IF act # "All" THEN SelectSeq(fg, LAMBDA p : p.park_name = act) ELSE fg

\* Apply Active Park Focus, polygon side.
FocusPolygons(fp, act) ==
    IF act # "All"
    THEN SelectSeq(fp, LAMBDA r : r.ParkGroupDescription = act)
    ELSE fp
\* ------------------------------------------------------------ aggregation
\* groupby("park_name"): the group keys present, in sorted key order.
ParkKeys(g) ==
    SelectSeq(ParkOrder, LAMBDA k : \E i \in DOMAIN g : g[i].park_name = k)

\* .agg(num_visitors=nunique, num_pings=count, first_ping=min, last_ping=max)
\* followed by reset_index().
ParkAgg(g) ==
    LET keys == ParkKeys(g)
        rows(k) == {i \in DOMAIN g : g[i].park_name = k}
    IN  [n \in 1..Len(keys) |->
           [park_name    |-> keys[n],
            num_visitors |-> Cardinality({g[i].ad_id : i \in rows(keys[n])}),
            num_pings    |-> Cardinality(rows(keys[n])),
            first_ping   |-> SetMin({g[i].utc_timestamp : i \in rows(keys[n])}),
            last_ping    |-> SetMax({g[i].utc_timestamp : i \in rows(keys[n])})]]

\* One insertion step of an ascending sort on num_visitors.  A stable sort
\* puts the new row after the rows that compare equal; an unstable one may
\* put it before them.
InsertRow(s, x, stable) ==
    LET k == Cardinality({i \in DOMAIN s :
                 IF stable THEN s[i].num_visitors <= x.num_visitors
                           ELSE s[i].num_visitors < x.num_visitors})
    IN  SubSeq(s, 1, k) \o <<x>> \o SubSeq(s, k + 1, Len(s))

RECURSIVE ArgSort(_, _)
ArgSort(s, stable) ==
    IF s = <<>> THEN <<>>
    ELSE InsertRow(ArgSort(SubSeq(s, 1, Len(s) - 1), stable), s[Len(s)], stable)

\* sort_values("num_visitors", ascending=False) with the default
\* kind="quicksort": the rows are reversed, sorted ascending and reversed
\* again; quicksort gives no promise about rows that compare equal.
\* Variant: ascending=False is missing.
SortValuesAscending(rows, stable) == ArgSort(rows, stable)
SortValues(rows, stable) == Reverse(ArgSort(Reverse(rows), stable))

\* groupby(["ad_id", "park_name"]): every key pair, in sorted key order.
PairOrder ==
    [n \in 1..(Len(DeviceOrder) * Len(ParkOrder)) |->
        <<DeviceOrder[((n - 1) \div Len(ParkOrder)) + 1],
          ParkOrder[((n - 1) % Len(ParkOrder)) + 1]>>]
TripKeys(g) ==
    SelectSeq(PairOrder, LAMBDA k : \E i \in DOMAIN g :
                  g[i].ad_id = k[1] /\ g[i].park_name = k[2])

\* .agg(num_pings=count, first_ping=min, last_ping=max).reset_index()
\* Variant: num_pings counts distinct timestamps.
TripAggNunique(g) ==
    LET keys == TripKeys(g)
        rows(k) == {i \in DOMAIN g : g[i].ad_id = k[1] /\ g[i].park_name = k[2]}
    IN  [n \in 1..Len(keys) |->
           [ad_id      |-> keys[n][1],
            park_name  |-> keys[n][2],
            num_pings  |-> Cardinality({g[i].utc_timestamp : i \in rows(keys[n])}),
            first_ping |-> SetMin({g[i].utc_timestamp : i \in rows(keys[n])}),
            last_ping  |-> SetMax({g[i].utc_timestamp : i \in rows(keys[n])})]]
TripAgg(g) ==
    LET keys == TripKeys(g)
        rows(k) == {i \in DOMAIN g : g[i].ad_id = k[1] /\ g[i].park_name = k[2]}
    IN  [n \in 1..Len(keys) |->
           [ad_id      |-> keys[n][1],
            park_name  |-> keys[n][2],
            num_pings  |-> Cardinality(rows(keys[n])),
            first_ping |-> SetMin({g[i].utc_timestamp : i \in rows(keys[n])}),
            last_ping  |-> SetMax({g[i].utc_timestamp : i \in rows(keys[n])})]]

\* df["first_ping"] = df["first_ping"].dt.strftime(...), same for last_ping
FormatPings(rows) ==
    [n \in 1..Len(rows) |->
        [rows[n] EXCEPT !.first_ping = Strftime(@), !.last_ping = Strftime(@)]]
\* ------------------------------------------------------------ the script
\* The value every derived name has before the script assigns it.
Unbound == "unbound"

\* Boolean indexing (and .copy()) builds a new frame: the frame being
\* indexed keeps its rows.
\* Variant: the indexed frame is replaced by the result.
ReplacedByView(df, view) == view
IndexedFrame(df, view) == df

\* Park Details Expander: the value the expander leaves in `info`.
\* The name is assigned only on the path that finds a polygon row.
ParkDetailsInfo(fp, pi, act) ==
    LET park_row == SelectSeq(fp, LAMBDA r : r.ParkGroupDescription = act)
    IN  IF act = "All" \/ park_row = <<>> THEN Unbound
        ELSE IF park_row[1].GlobalID \in DOMAIN pi
             THEN pi[park_row[1].GlobalID]
             ELSE "None"

\* Park Details Expander: what the expander displays.
ParkDetailsShown(fp, pi, act) ==
    LET i == ParkDetailsInfo(fp, pi, act)
    IN  IF act = "All" THEN "info:select a park to view details"
        ELSE IF i = Unbound THEN "info:no data available for selected park"
        ELSE IF i = "None" THEN "warning:no rich info available"
        ELSE "markdown:park details"

\* One of the two chart sections:
\*   if active_park != "All" and "VisitStats" in info: chart  else: st.info
\* The membership test raises NameError when `info` was never assigned and
\* TypeError when it is None.
ChartSection(act, i, name) ==
    IF act = "All" THEN [error |-> "none", shown |-> {"info:select a park:" \o name}]
    ELSE IF i = Unbound THEN [error |-> "NameError", shown |-> {}]
    ELSE IF i = "None" THEN [error |-> "TypeError", shown |-> {}]
    ELSE IF i = "stats" THEN [error |-> "none", shown |-> {"chart:" \o name}]
    ELSE [error |-> "none", shown |-> {"info:select a park:" \o name}]

NothingComputed ==
    [filtered_gdf |-> <<>>, filtered_parks_gdf |-> <<>>, focus_gdf |-> <<>>,
     focus_parks_gdf |-> <<>>, info |-> Unbound, park_summary |-> <<>>,
     trip_stats |-> <<>>]

\* One execution of the script from the date validation to the footer.
Script(g, pg, pi, sel, dr, act, stable) ==
    IF ~ValidDateRange(dr)
    THEN \* st.info(...); st.stop()
         [status |-> "stopped", error |-> "none", defined |-> {},
          shown |-> {"info:select both a start and end date"}] @@ NothingComputed
    ELSE IF Len(dr) # 2
    THEN \* start_date, end_date = selected_date_range
         [status |-> "raised", error |-> "ValueError", defined |-> {},
          shown |-> {}] @@ NothingComputed
    ELSE
    LET start_date == dr[1]
        end_date   == dr[2]
        byPark     == FilterParks(g, sel)
        fparks     == FilterPolygons(pg, sel)
        byVisit    == FilterVisitor(byPark, selected_visitor_type)
        fgdf       == FilterDate(byVisit, start_date, end_date)
        focusP     == FocusPolygons(fparks, act)
        focusG     == FocusPoints(fgdf, act)
        i          == ParkDetailsInfo(fparks, pi, act)
        psum       == FormatPings(SortValues(ParkAgg(focusG), stable))
        tstats     == FormatPings(TripAgg(focusG))
        seasonal   == ChartSection(act, i, "seasonal")
        annual     == ChartSection(act, i, "annual")
        upToTables == {ParkDetailsShown(fparks, pi, act), "pydeck_chart",
                       "dataframe:park_summary", "dataframe:trip_stats"}
        names      == {"start_date", "end_date", "active_park", "filtered_gdf",
                       "filtered_parks_gdf", "focus_gdf", "focus_parks_gdf",
                       "park_summary", "trip_stats"}
                      \cup (IF i = Unbound THEN {} ELSE {"info"})
        computed   == [filtered_gdf |-> fgdf, filtered_parks_gdf |-> fparks,
                       focus_gdf |-> focusG, focus_parks_gdf |-> focusP,
                       info |-> i, park_summary |-> psum, trip_stats |-> tstats]
    IN  IF seasonal.error # "none"
        THEN [status |-> "raised", error |-> seasonal.error, defined |-> names,
              shown |-> upToTables] @@ computed
        ELSE IF annual.error # "none"
        THEN [status |-> "raised", error |-> annual.error, defined |-> names,
              shown |-> upToTables \cup seasonal.shown] @@ computed
        ELSE [status |-> "done", error |-> "none", defined |-> names,
              shown |-> upToTables \cup seasonal.shown \cup annual.shown
                        \cup {"footer"}] @@ computed

\* The state a script run leaves behind.
Rerun(sel, dr, act, stable) ==
    \E out \in {Script(gdf, parks_gdf, park_info, sel, dr, act, stable)} :
        /\ status' = out.status
        /\ error' = out.error
        /\ defined' = out.defined
        /\ shown' = out.shown
        /\ filtered_gdf' = out.filtered_gdf
        /\ filtered_parks_gdf' = out.filtered_parks_gdf
        /\ focus_gdf' = out.focus_gdf
        /\ focus_parks_gdf' = out.focus_parks_gdf
        /\ info' = out.info
        /\ park_summary' = out.park_summary
        /\ trip_stats' = out.trip_stats
        /\ gdf' = IndexedFrame(gdf, out.filtered_gdf)
        /\ parks_gdf' = IndexedFrame(parks_gdf, out.filtered_parks_gdf)
        /\ park_info' = park_info

\* ---------------------------------------------------------- the datasets
\* Point datasets: every sequence of one to MaxPings pings.
PointDatasets == SeqsUpTo(Ping, MaxPings) \ {<<>>}
\* Polygon datasets and metadata lookups.
PolygonDatasets == SeqsUpTo(Polygon, MaxPolys)
InfoLookups == UNION {[D -> InfoKinds] : D \in SUBSET GlobalIDs}

\* A polygon for each park, metadata for the first one only.
OnePolygonEach == <<[ParkGroupDescription |-> "A", GlobalID |-> "g1"],
                    [ParkGroupDescription |-> "B", GlobalID |-> "g2"]>>
OneInfo == [x \in {"g1"} |-> "stats"]
\* Three pings each.  In the first, park B is seen first and park A has
\* two devices; in the second, one device has two pings in park A.
SamplePoints ==
    {<<[ad_id |-> "d2", park_name |-> "B", utc_timestamp |-> 0, visited_park |-> TRUE],
       [ad_id |-> "d1", park_name |-> "A", utc_timestamp |-> TicksPerDay, visited_park |-> TRUE],
       [ad_id |-> "d2", park_name |-> "A", utc_timestamp |-> TicksPerDay + 1, visited_park |-> TRUE]>>,
     <<[ad_id |-> "d1", park_name |-> "A", utc_timestamp |-> 0, visited_park |-> TRUE],
       [ad_id |-> "d2", park_name |-> "B", utc_timestamp |-> TicksPerDay, visited_park |-> TRUE],
       [ad_id |-> "d1", park_name |-> "A", utc_timestamp |-> TicksPerDay + 1, visited_park |-> TRUE]>>}

\* ---------------------------------------------------------------- actions
\* First run: the widgets hold their defaults (every park, the full date
\* range, focus "All").
Init ==
    /\ \/ /\ gdf \in PointDatasets
          /\ parks_gdf = OnePolygonEach
          /\ park_info = OneInfo
       \/ /\ gdf \in SamplePoints
          /\ parks_gdf \in PolygonDatasets
          /\ park_info \in InfoLookups
    /\ selected_parks = available_parks(gdf)
    /\ selected_date_range = <<min_date(gdf), max_date(gdf)>>
    /\ active_park = "All"
    /\ \E stable \in BOOLEAN :
         \E out \in {Script(gdf, parks_gdf, park_info, selected_parks,
                            selected_date_range, active_park, stable)} :
             /\ status = out.status
             /\ error = out.error
             /\ defined = out.defined
             /\ shown = out.shown
             /\ filtered_gdf = out.filtered_gdf
             /\ filtered_parks_gdf = out.filtered_parks_gdf
             /\ focus_gdf = out.focus_gdf
             /\ focus_parks_gdf = out.focus_parks_gdf
             /\ info = out.info
             /\ park_summary = out.park_summary
             /\ trip_stats = out.trip_stats

\* The user changes the park multiselect.  The selectbox options change with
\* it, so the selectbox falls back to its default, "All".
SelectParks(sel, stable) ==
    /\ sel # selected_parks
    /\ selected_parks' = sel
    /\ active_park' = "All"
    /\ UNCHANGED selected_date_range
    /\ Rerun(sel, selected_date_range, "All", stable)

\* The user changes the date input.  A run stopped at the validation never
\* draws the selectbox, which drops its value.
SelectDateRange(dr, stable) ==
    /\ dr # selected_date_range
    /\ selected_date_range' = dr
    /\ active_park' = IF ValidDateRange(dr) THEN active_park ELSE "All"
    /\ UNCHANGED selected_parks
    /\ Rerun(selected_parks, dr, active_park', stable)

\* The user picks the focus park among "All" and the selected parks.
SelectActivePark(act, stable) ==
    /\ status # "stopped"
    /\ act \in {"All"} \cup selected_parks
    /\ act # active_park
    /\ active_park' = act
    /\ UNCHANGED <<selected_parks, selected_date_range>>
    /\ Rerun(selected_parks, selected_date_range, act, stable)

Next ==
    \/ \E sel \in SUBSET available_parks(gdf), stable \in BOOLEAN :
          SelectParks(sel, stable)
    \/ \E dr \in DateRangeValues(gdf), stable \in BOOLEAN :
          SelectDateRange(dr, stable)
    \/ \E act \in {"All"} \cup Parks, stable \in BOOLEAN :
          SelectActivePark(act, stable)

Spec == Init /\ [][Next]_vars
\* ------------------------------------------------------------ properties
Count(s, x) == Cardinality({i \in DOMAIN s : s[i] = x})
InRange(p) ==
    /\ selected_date_range[1] <= DateOf(p.utc_timestamp)
    /\ DateOf(p.utc_timestamp) <= selected_date_range[2]
StopMessage == "info:select both a start and end date"
NothingBound ==
    /\ defined = {}
    /\ filtered_gdf = <<>> /\ filtered_parks_gdf = <<>>
    /\ focus_gdf = <<>> /\ focus_parks_gdf = <<>>
    /\ park_summary = <<>> /\ trip_stats = <<>>

\* C1: a date range with fewer than two dates stops the run at the
\* validation: the run ends by st.stop(), binds no filtered set, no focus set
\* and no summary, and displays only the request for both dates; a complete
\* range never stops the run.
C1_HaltsAtValidation ==
    /\ Len(selected_date_range) # 2 =>
          /\ status = "stopped"
          /\ error = "none"
          /\ NothingBound
          /\ shown = {StopMessage}
    /\ status = "stopped" => Len(selected_date_range) # 2
C1_Witness ==
    /\ Len(selected_date_range) = 1
    /\ status = "stopped"
    /\ selected_parks # {}

\* C2: with no park selected, a run that passes the date validation ends
\* without an exception, the filtered and focused point and polygon sets are
\* empty and both summary tables are displayed with zero rows.
C2_EmptySelection ==
    (selected_parks = {} /\ status # "stopped") =>
        /\ status = "done"
        /\ error = "none"
        /\ filtered_gdf = <<>> /\ filtered_parks_gdf = <<>>
        /\ focus_gdf = <<>> /\ focus_parks_gdf = <<>>
        /\ park_summary = <<>> /\ trip_stats = <<>>
        /\ {"dataframe:park_summary", "dataframe:trip_stats"} \subseteq shown
C2_Witness ==
    /\ selected_parks = {}
    /\ status = "done"
    /\ parks_gdf # <<>>
    /\ \E i \in DOMAIN gdf : gdf[i].visited_park /\ InRange(gdf[i])

\* The polygon rows of the focus park, in dataset order.
FocusRows == {i \in DOMAIN parks_gdf :
                parks_gdf[i].ParkGroupDescription = active_park}

\* C3: when the first polygon row of the focus park has a GlobalID with no
\* entry in the metadata lookup, the run shows the "no rich info" warning
\* and completes without an exception.
C3_MissingMetadataCompletes ==
    (/\ status # "stopped"
     /\ active_park # "All"
     /\ FocusRows # {}
     /\ parks_gdf[SetMin(FocusRows)].GlobalID \notin DOMAIN park_info) =>
        /\ status = "done"
        /\ error = "none"
        /\ "warning:no rich info available" \in shown
        /\ "footer" \in shown

\* C4: with focus "All" the focused sets are the filtered sets; with a park
\* in focus they hold exactly the filtered rows of that park, each as often
\* as the filtered set holds it, and nothing else.
C4_FocusNarrows ==
    "focus_gdf" \in defined =>
        IF active_park = "All"
        THEN focus_gdf = filtered_gdf /\ focus_parks_gdf = filtered_parks_gdf
        ELSE /\ \A p \in Range(filtered_gdf) \cup Range(focus_gdf) :
                  Count(focus_gdf, p) =
                      IF p.park_name = active_park THEN Count(filtered_gdf, p) ELSE 0
             /\ \A r \in Range(filtered_parks_gdf) \cup Range(focus_parks_gdf) :
                  Count(focus_parks_gdf, r) =
                      IF r.ParkGroupDescription = active_park
                      THEN Count(filtered_parks_gdf, r) ELSE 0
             /\ Len(focus_gdf) <= Len(filtered_gdf)
             /\ Len(focus_parks_gdf) <= Len(filtered_parks_gdf)
C4_Witness ==
    /\ "focus_gdf" \in defined
    /\ active_park # "All"
    /\ focus_gdf # <<>>
    /\ Len(focus_gdf) < Len(filtered_gdf)
    /\ Len(filtered_gdf) < Len(gdf)
    /\ focus_parks_gdf # <<>>
    /\ Len(focus_parks_gdf) < Len(filtered_parks_gdf)

\* C5: among the pings of a selected park with visited_park true, exactly
\* those whose calendar date lies in [start_date, end_date], bounds
\* included, are in the filtered set.
C5_DateInclusive ==
    "filtered_gdf" \in defined =>
        \A i \in DOMAIN gdf :
            (gdf[i].park_name \in selected_parks /\ gdf[i].visited_park) =>
                Count(filtered_gdf, gdf[i]) =
                    IF InRange(gdf[i]) THEN Count(gdf, gdf[i]) ELSE 0
C5_Witness ==
    /\ "filtered_gdf" \in defined
    /\ selected_date_range[1] = selected_date_range[2]
    /\ \E i \in DOMAIN filtered_gdf :
          /\ DateOf(filtered_gdf[i].utc_timestamp) = selected_date_range[2]
          /\ filtered_gdf[i].utc_timestamp % TicksPerDay # 0
    /\ \E i \in DOMAIN gdf :
          /\ gdf[i].park_name \in selected_parks /\ gdf[i].visited_park
          /\ DateOf(gdf[i].utc_timestamp) = selected_date_range[1] - 1
          /\ Count(filtered_gdf, gdf[i]) = 0

\* C6: every TripSummary row counts the focused pings of its device and
\* park, every such pair of the focused set has exactly one row, and no row
\* has first_ping after last_ping.
C6_TripSoundness ==
    "trip_stats" \in defined =>
        /\ \A n \in DOMAIN trip_stats :
              /\ trip_stats[n].num_pings =
                    Cardinality({i \in DOMAIN focus_gdf :
                        /\ focus_gdf[i].ad_id = trip_stats[n].ad_id
                        /\ focus_gdf[i].park_name = trip_stats[n].park_name})
              /\ trip_stats[n].num_pings >= 1
              /\ StrLeq(trip_stats[n].first_ping, trip_stats[n].last_ping)
        /\ \A i \in DOMAIN focus_gdf :
              Cardinality({n \in DOMAIN trip_stats :
                  /\ trip_stats[n].ad_id = focus_gdf[i].ad_id
                  /\ trip_stats[n].park_name = focus_gdf[i].park_name}) = 1
C6_Witness ==
    /\ "trip_stats" \in defined
    /\ Len(trip_stats) >= 2
    /\ \E n \in DOMAIN trip_stats :
          /\ trip_stats[n].num_pings >= 2
          /\ trip_stats[n].first_ping # trip_stats[n].last_ping

FirstSeen(k) == SetMin({i \in DOMAIN focus_gdf : focus_gdf[i].park_name = k})
NonIncreasing ==
    \A m, n \in DOMAIN park_summary :
        m < n => park_summary[m].num_visitors >= park_summary[n].num_visitors

\* C7 as claimed: ParkSummary is non-increasing in num_visitors and rows
\* with equal num_visitors are in the order in which their parks first
\* occur in the point set that was aggregated.
C7_TiesInDiscoveryOrder ==
    "park_summary" \in defined =>
        /\ NonIncreasing
        /\ \A m, n \in DOMAIN park_summary :
              (m < n /\ park_summary[m].num_visitors = park_summary[n].num_visitors)
                  => FirstSeen(park_summary[m].park_name)
                       < FirstSeen(park_summary[n].park_name)

\* C7 as amended: ParkSummary has one row per park of the aggregated point
\* set, num_visitors is that park's number of distinct devices, and the rows
\* are non-increasing in num_visitors.
C7_SortedByVisitors ==
    "park_summary" \in defined =>
        /\ NonIncreasing
        /\ \A n \in DOMAIN park_summary :
              park_summary[n].num_visitors =
                  Cardinality({focus_gdf[i].ad_id : i \in
                      {j \in DOMAIN focus_gdf :
                          focus_gdf[j].park_name = park_summary[n].park_name}})
        /\ \A i \in DOMAIN focus_gdf :
              Cardinality({n \in DOMAIN park_summary :
                  park_summary[n].park_name = focus_gdf[i].park_name}) = 1
C7_Witness ==
    /\ "park_summary" \in defined
    /\ Len(park_summary) = 2
    /\ park_summary[1].num_visitors > park_summary[2].num_visitors
    /\ FirstSeen(park_summary[1].park_name) > FirstSeen(park_summary[2].park_name)

C9_VisitorOnly ==
    "filtered_gdf" \in defined =>
        /\ \A i \in DOMAIN filtered_gdf : filtered_gdf[i].visited_park = TRUE
        /\ \A i \in DOMAIN focus_gdf : focus_gdf[i].visited_park = TRUE
        /\ \A n \in DOMAIN park_summary :
              park_summary[n].num_pings =
                  Cardinality({i \in DOMAIN gdf :
                      /\ gdf[i].visited_park
                      /\ gdf[i].park_name = park_summary[n].park_name
                      /\ gdf[i].park_name \in selected_parks
                      /\ InRange(gdf[i])})
        /\ \A i \in DOMAIN gdf :
              (gdf[i].visited_park /\ gdf[i].park_name \in selected_parks
                 /\ InRange(gdf[i]))
                  => Count(filtered_gdf, gdf[i]) = Count(gdf, gdf[i])
C9_Witness ==
    /\ "filtered_gdf" \in defined
    /\ filtered_gdf # <<>>
    /\ \E i \in DOMAIN gdf :
          /\ ~gdf[i].visited_park
          /\ gdf[i].park_name \in selected_parks
          /\ InRange(gdf[i])
          /\ Count(filtered_gdf, gdf[i]) = 0

\* C10: when a selected park with no polygon row is put in focus, the run
\* shows the "no data" state, the focused polygon set is empty and the run
\* completes without an exception.
C10_NoPolygonCompletes ==
    (/\ status # "stopped"
     /\ active_park # "All"
     /\ FocusRows = {}) =>
        /\ status = "done"
        /\ error = "none"
        /\ focus_parks_gdf = <<>>
        /\ "info:no data available for selected park" \in shown
        /\ "footer" \in shown
====
